---- MODULE Spec2Model ----
(***************************************************************************)
(* crouton: the reference-counted Namespace of the server, the per-        *)
(* connection Worker threads that serve open / close / execute requests    *)
(* against it, and the Server's registration calls.                        *)
(*                                                                         *)
(* Every `with self._namespace:` block of the source is a critical         *)
(* section of three points: waiting for the lock (pc "enter"), the lock    *)
(* taken and the block's membership test passed (pc "act"), the block's    *)
(* body done and the lock released (pc "send" for a worker).  A raise      *)
(* inside the block leaves it through __exit__, which releases the lock.   *)
(***************************************************************************)
EXTENDS Integers, Sequences, FiniteSets, TLC

\* ------------------------------------------------------------------ bounds
\* Addresses id() draws from, the cached integer's own address 0 aside.
MaxAddr == 2
\* Number of objects allocated over a run (constructed, returned, registered).
MaxObjs == 3
\* Number of messages the workers decode, over all connections.
MaxReqs == 3
\* The same, in the behaviours checked for liveness.
MaxLiveReqs == 2
\* Number of calls of Server.register and Server.register_type by the
\* application's threads.
MaxCalls == 3
\* Requests a peer writes on the connection whose bytes are followed, and
\* the bytes of one packed request.
MaxFrames == 3
FrameLen == 2
\* Appends to the remote list.
MaxItems == 2
\* Calls of Client.factory and of proxy methods, over all client threads.
MaxSends == 3
\* Direct calls of Namespace.add, acquire and release.
MaxApplied == 3

\* ------------------------------------------------------------- the universe
Workers == {"w1", "w2"}
ServerOwner == "srv"
Threads == Workers \cup {ServerOwner}
NoOwner == "none"
Addr == 0..MaxAddr
Names == {"n1"}
NoName == ""
\* Registered providers: a class, whose call allocates a new object, and
\* int, whose call returns the interpreter's cached small integer.
Providers == {"Obj", "int"}
\* Serial number of the cached integer object, allocated before the server.
Interned == 1
PlainValues == {"a", "b"}
\* The threads of the server application that call Server.register and
\* Server.register_type, and what they pass: a name that is no string stands
\* for every argument that fails isinstance(name, str).
Callers == {"c1", "c2"}
NotAString == "<0>"
TypeNames == {"Obj", "int", "alias"}
\* The threads of a client program that share one Client, and the worker
\* that serves the Client's connection.
Apps == {"t1", "t2"}
NoThread == ""
Conn == "w1"
InstanceNames == {"n1", "n2"}

VARIABLES
    types,                \* Namespace.types: type name -> provider
    _instances,           \* Namespace._instances: id -> object
    _instances_by_name,   \* Namespace._instances_by_name: name -> object
    _ref_counts,          \* Namespace._ref_counts: id -> owner -> count
    lock,                 \* Namespace._lock: the thread inside, or NoOwner
    heap,                 \* id() of every object allocated so far, by serial
    pc,                   \* where each thread is
    request,              \* Worker._dispatch: request
    response,             \* Worker._dispatch: response
    ret,                  \* Worker._action_execute: ret
    _inst_ids,            \* Worker._inst_ids
    todo,                 \* Namespace.release_all: ids the loop has yet to visit
    decoded,              \* messages decoded so far, over all connections
    owed,                 \* requests a worker has decoded and not answered yet
    entry,                \* the Namespace as it was when the lock was last taken
    outstanding,          \* add/acquire calls minus release calls, by id and owner
    closed,               \* ids whose instance a close request has destroyed
    stale,                \* the request at hand is an execute on a closed id
    reg,                  \* the server application's threads, in Server.register*
    stream,               \* one connection: bytes the peer has written so far
    eof,                  \* the peer has closed its end of the connection
    fed,                  \* bytes recv has returned, all fed to the unpacker
    unpacked,             \* messages the unpacker has yielded
    at,                   \* where that connection's worker is
    answered,             \* the requests answered, in the order of the responses
    remote,               \* a list object on the server, behind one proxy
    items,                \* the client's values whose append has returned
    got,                  \* what the client's last call on the proxy gave
    _lock,                \* Client._lock: the thread inside, or NoThread
    _socket,              \* Client._socket: "socket", or "None" once closed
    cpc,                  \* where each thread of the client program is
    call,                 \* Client._request: obj, the request of each thread
    outbox,               \* requests on their way to the worker
    inbox,                \* responses on their way to the client
    serving,              \* the thread whose request the worker has at hand
    proxies,              \* live Proxy objects, by instance id
    result,               \* what each thread's last request gave it
    sends,                \* factory and method calls made so far
    serdes,               \* Worker._packer/_unpacker: which pair each worker has
    applied,              \* direct calls of the Namespace's methods so far
    thrown                \* the exception the last of them raised, or ""

nsvars == <<types, _instances, _instances_by_name, _ref_counts>>
vars == <<types, _instances, _instances_by_name, _ref_counts, lock, heap, pc,
          request, response, ret, _inst_ids, todo, decoded, owed, entry,
          outstanding, closed, stale, reg, stream, eof, fed, unpacked, at,
          answered, remote, items, got, _lock, _socket, cpc, call, outbox,
          inbox, serving, proxies, result, sends, serdes, applied, thrown>>
framevars == <<stream, eof, fed, unpacked, at, answered>>
listvars == <<remote, items, got>>
clivars == <<_lock, _socket, cpc, call, outbox, inbox, serving, proxies,
             result, sends>>
\* What the steps of the workers on the Namespace leave alone.
apivars == <<applied, thrown>>
others == <<reg, framevars, listvars, clivars, apivars>>
extra == <<serdes, others>>

\* ------------------------------------------------------------ dictionaries
EmptyDict == <<>>
Put(d, k, v) == [x \in DOMAIN d \cup {k} |-> IF x = k THEN v ELSE d[x]]
Del(d, k) == [x \in DOMAIN d \ {k} |-> d[x]]
Values(d) == {d[x] : x \in DOMAIN d}
\* sum(f[x] for x in S)
RECURSIVE Total(_, _)
Total(f, S) ==
    IF S = {} THEN 0
    ELSE LET x == CHOOSE y \in S : TRUE IN f[x] + Total(f, S \ {x})

\* ------------------------------------------------------------ wire values
\* The `instance` field of a request: an integer id, a name, or missing.
IdKey(i) == [present |-> TRUE, isint |-> TRUE, id |-> i, name |-> NoName]
NameKey(n) == [present |-> TRUE, isint |-> FALSE, id |-> 0, name |-> n]
NoKey == [present |-> FALSE, isint |-> FALSE, id |-> 0, name |-> NoName]
Msg(s, a, p, k) == [shape |-> s, action |-> a, provider |-> p, instance |-> k]
\* What _receive returns when the stream has ended, and what unpacking the
\* msgpack nil yields: Python's None in both cases.
None == Msg("None", "", "", NoKey)
\* A decoded value that is neither None nor a map (an integer, a list).
NonMap == Msg("other", "", "", NoKey)
NoRequest == Msg("", "", "", NoKey)

Response(t, v) == [type |-> t, value |-> v]
NoResponse == Response("", "")
Error(exc) == Response("error", exc)

\* The result of an invoked method: a plain value, or an object.
Plain(v) == [plain |-> TRUE, value |-> v, obj |-> 0]
Object(o) == [plain |-> FALSE, value |-> "", obj |-> o]
NoRet == Plain("")
\* What Client._request hands its caller; `to` is the thread whose request
\* the response answers.
NoResult == [kind |-> "", value |-> "", to |-> NoThread, resp |-> NoResponse]

\* ------------------------------------------------------------------ objects
\* id(obj): the address of a live object; the addresses of two live objects
\* differ, the address of a freed object may be given to a later one.
id(o) == heap[o]
Live == {Interned} \cup Values(_instances) \cup Values(_instances_by_name)
\* Addresses handed out so far, and the lowest of the others.  Addresses
\* never handed out are interchangeable: the allocator hands them out
\* lowest first, and a request names an id never handed out through the
\* lowest one.
Used == {heap[o] : o \in 1..Len(heap)}
NextUnused == {a \in Addr \ Used : \A b \in Addr \ Used : a <= b}
\* Where a new object can be put: the address of a freed object, or a new one.
FreeAddr == (Used \ {id(o) : o \in Live}) \cup NextUnused
CanAllocate == Len(heap) < MaxObjs /\ FreeAddr # {}
NewObject == Len(heap) + 1

\* The messages a client can send.
Keys == {IdKey(i) : i \in Used \cup NextUnused} \cup {NameKey(n) : n \in Names}
Requests ==
    {None, NonMap}
    \cup {Msg("map", "open", p, NoKey) : p \in Providers}
    \cup {Msg("map", a, "", k) : a \in {"open", "close", "execute"}, k \in Keys}
    \cup {Msg("map", a, "", NoKey) : a \in {"open", "", "shutdown"}}

\* -------------------------------------------------------------- Namespace
Snapshot == [i |-> _instances, r |-> _ref_counts, n |-> _instances_by_name,
             t |-> types]
NoSnapshot == [i |-> EmptyDict, r |-> EmptyDict, n |-> EmptyDict, t |-> EmptyDict]

\* Namespace.__contains__
contains(key) ==
    IF key.isint THEN key.id \in DOMAIN _instances
    ELSE key.name \in DOMAIN _instances_by_name

\* Namespace.__getitem__
getitem(key) ==
    IF key.isint THEN _instances[key.id] ELSE _instances_by_name[key.name]

\* A Namespace whose __enter__ does not wait for the lock.
LockFree_NoWait == TRUE

\* Namespace.__enter__: Lock.acquire returns once no thread holds the lock.
LockFree == lock = NoOwner

\* A count update that sets the owner's count to 1 whatever it was.
Increment_Reset(ref_counts, owner) == Put(ref_counts, owner, 1)

\* ref_counts[owner] += 1 if owner in ref_counts else ref_counts[owner] = 1
Increment(ref_counts, owner) ==
    IF owner \in DOMAIN ref_counts
    THEN [ref_counts EXCEPT ![owner] = @ + 1]
    ELSE Put(ref_counts, owner, 1)

\* An add that leaves the counts of an instance it already stores alone.
add_NoCountIfStored(instance, inst_id, owner, name) ==
    /\ IF inst_id \in DOMAIN _instances
       THEN UNCHANGED <<_ref_counts, _instances>>
       ELSE /\ _instances' = Put(_instances, inst_id, instance)
            /\ _ref_counts' = Put(_ref_counts, inst_id, Put(EmptyDict, owner, 1))
    /\ _instances_by_name' =
         IF name # NoName THEN Put(_instances_by_name, name, instance)
         ELSE _instances_by_name

\* Namespace.add
add(instance, inst_id, owner, name) ==
    /\ IF inst_id \in DOMAIN _instances
       THEN /\ _ref_counts' = [_ref_counts EXCEPT
                                 ![inst_id] = Increment(@, owner)]
            /\ _instances' = _instances
       ELSE /\ _instances' = Put(_instances, inst_id, instance)
            /\ _ref_counts' = Put(_ref_counts, inst_id, Put(EmptyDict, owner, 1))
    /\ _instances_by_name' =
         IF name # NoName THEN Put(_instances_by_name, name, instance)
         ELSE _instances_by_name

\* Namespace.acquire raises KeyError: the reference table is keyed by id.
acquire_KeyError(key) == ~key.isint \/ key.id \notin DOMAIN _ref_counts

\* An acquire that makes the caller the only owner.
acquire_TakesOver(inst_id, owner) ==
    /\ _ref_counts' = [_ref_counts EXCEPT ![inst_id] = Put(EmptyDict, owner, 1)]
    /\ UNCHANGED <<_instances, _instances_by_name>>

\* Namespace.acquire
acquire(inst_id, owner) ==
    /\ _ref_counts' = [_ref_counts EXCEPT ![inst_id] = Increment(@, owner)]
    /\ UNCHANGED <<_instances, _instances_by_name>>

\* Namespace.release raises KeyError: no table for the key, or no count of
\* the owner in it.
release_KeyError(key, owner) ==
    \/ ~key.isint
    \/ key.id \notin DOMAIN _ref_counts
    \/ owner \notin DOMAIN _ref_counts[key.id]

\* Namespace.release: its return value
released(inst_id, owner) == _ref_counts[inst_id][owner] - 1 < 1

\* A release that empties the reference table and forgets the storage.
release_KeepsStorage(inst_id, owner) ==
    /\ IF released(inst_id, owner)
       THEN LET ref_counts == Del(_ref_counts[inst_id], owner) IN
            IF DOMAIN ref_counts = {}
            THEN _ref_counts' = Del(_ref_counts, inst_id)
            ELSE _ref_counts' = [_ref_counts EXCEPT ![inst_id] = ref_counts]
       ELSE _ref_counts' = [_ref_counts EXCEPT ![inst_id][owner] = @ - 1]
    /\ UNCHANGED <<_instances, _instances_by_name>>

\* A release that destroys the instance as soon as this owner's count is
\* gone, whoever else holds it.
release_IgnoresOtherOwners(inst_id, owner) ==
    /\ IF released(inst_id, owner)
       THEN /\ _ref_counts' = Del(_ref_counts, inst_id)
            /\ _instances' = Del(_instances, inst_id)
       ELSE /\ _ref_counts' = [_ref_counts EXCEPT ![inst_id][owner] = @ - 1]
            /\ _instances' = _instances
    /\ UNCHANGED _instances_by_name

\* Namespace.release
release(inst_id, owner) ==
    /\ IF released(inst_id, owner)
       THEN LET ref_counts == Del(_ref_counts[inst_id], owner) IN
            IF DOMAIN ref_counts = {}
            THEN /\ _ref_counts' = Del(_ref_counts, inst_id)
                 /\ _instances' = Del(_instances, inst_id)
            ELSE /\ _ref_counts' = [_ref_counts EXCEPT ![inst_id] = ref_counts]
                 /\ _instances' = _instances
       ELSE /\ _ref_counts' = [_ref_counts EXCEPT ![inst_id][owner] = @ - 1]
            /\ _instances' = _instances
    /\ UNCHANGED _instances_by_name

\* Namespace.release_all: one pass of its loop raises KeyError
release_all_KeyError(inst_id, owner) ==
    \/ inst_id \notin DOMAIN _ref_counts
    \/ owner \notin DOMAIN _ref_counts[inst_id]

\* A release_all that gives up one reference per id, as release does.
release_all_ByOne(inst_id, owner) ==
    /\ IF _ref_counts[inst_id][owner] - 1 < 1
       THEN LET ref_counts == Del(_ref_counts[inst_id], owner) IN
            IF DOMAIN ref_counts = {}
            THEN /\ _ref_counts' = Del(_ref_counts, inst_id)
                 /\ _instances' = Del(_instances, inst_id)
            ELSE /\ _ref_counts' = [_ref_counts EXCEPT ![inst_id] = ref_counts]
                 /\ _instances' = _instances
       ELSE /\ _ref_counts' = [_ref_counts EXCEPT ![inst_id][owner] = @ - 1]
            /\ _instances' = _instances
    /\ UNCHANGED _instances_by_name

\* Namespace.release_all: one pass of its loop
release_all(inst_id, owner) ==
    /\ LET ref_counts == Del(_ref_counts[inst_id], owner) IN
       IF DOMAIN ref_counts = {}
       THEN /\ _ref_counts' = Del(_ref_counts, inst_id)
            /\ _instances' = Del(_instances, inst_id)
       ELSE /\ _ref_counts' = [_ref_counts EXCEPT ![inst_id] = ref_counts]
            /\ _instances' = _instances
    /\ UNCHANGED _instances_by_name

\* A thread of the application outside Server.register*: the exception its
\* last call raised ("" for none), the calls it has made.
Idle(exc, n) ==
    [pc |-> "idle", op |-> "", name |-> NoName, provider |-> "", inst |-> 0,
     raised |-> exc, calls |-> n]

\* ------------------------------------------------------------------- Init
Init ==
    /\ types = EmptyDict
    /\ _instances = EmptyDict
    /\ _instances_by_name = EmptyDict
    /\ _ref_counts = EmptyDict
    /\ lock = NoOwner
    /\ heap = <<0>>
    /\ pc = [w \in Workers |-> "recv"]
    /\ request = [w \in Workers |-> NoRequest]
    /\ response = [w \in Workers |-> NoResponse]
    /\ ret = [w \in Workers |-> NoRet]
    /\ _inst_ids = [w \in Workers |-> {}]
    /\ todo = [w \in Workers |-> {}]
    /\ decoded = 0
    /\ owed = [w \in Workers |-> 0]
    /\ entry = NoSnapshot
    /\ outstanding = [i \in Addr |-> [o \in Threads |-> 0]]
    /\ closed = {}
    /\ stale = [w \in Workers |-> FALSE]
    /\ reg = [c \in Callers |-> Idle("", 0)]
    /\ stream = 0
    /\ eof = FALSE
    /\ fed = 0
    /\ unpacked = 0
    /\ at = "recv"
    /\ answered = <<>>
    /\ remote = <<>>
    /\ items = <<>>
    /\ got = [op |-> "", item |-> "", type |-> "", value |-> ""]
    /\ _lock = NoThread
    /\ _socket = "socket"
    /\ cpc = [t \in Apps |-> "idle"]
    /\ call = [t \in Apps |-> NoRequest]
    /\ outbox = <<>>
    /\ inbox = <<>>
    /\ serving = NoThread
    /\ proxies = [i \in Addr |-> 0]
    /\ result = [t \in Apps |-> NoResult]
    /\ sends = 0
    /\ serdes = [w \in Workers |-> 0]
    /\ applied = 0
    /\ thrown = ""

\* ------------------------------------------------------- Worker._dispatch
\* Which handler, and which of its branches, a request map selects.
Handler(m) ==
    IF m.action = "open" /\ m.provider # "" THEN "open_provider"
    ELSE IF m.action = "open" THEN "open_instance"
    ELSE m.action

\* The exception a request raises before its handler reaches the Namespace:
\* subscripting a value that is no map, a missing key, an action that is
\* none of the three, an open with neither 'provider' nor 'instance'.
DispatchError(m) ==
    IF m.shape # "map" THEN "TypeError"
    ELSE IF m.action = "" THEN "KeyError"
    ELSE IF m.action \notin {"execute", "open", "close"} THEN "ValueError"
    ELSE IF m.action = "open" /\ m.provider = "" /\ ~m.instance.present
         THEN "ValueError"
    ELSE IF m.action # "open" /\ ~m.instance.present THEN "KeyError"
    ELSE ""

\* The test that opens each handler's `with` block, and what it raises.
CheckError(m) ==
    IF Handler(m) = "open_provider"
    THEN IF m.provider \in DOMAIN types THEN "" ELSE "TypeError"
    ELSE IF contains(m.instance) THEN ""
    ELSE IF Handler(m) = "open_instance" THEN "ValueError"
    ELSE "KeyError"

\* Namespace.__exit__, and what the thread leaves the block with.
Leave(w, resp) ==
    /\ lock' = NoOwner
    /\ entry' = NoSnapshot
    /\ response' = [response EXCEPT ![w] = resp]
    /\ pc' = [pc EXCEPT ![w] = "send"]

Count(i, o, n) == outstanding' = [outstanding EXCEPT ![i][o] = n]

\* Worker._receive returns the decoded message m and _dispatch looks at it.
Dispatch(w, m) ==
    /\ pc[w] = "recv"
    /\ request' = [request EXCEPT ![w] = m]
    /\ IF m = None
       THEN /\ pc' = [pc EXCEPT ![w] = "closing"]
            /\ response' = response
       ELSE IF DispatchError(m) # ""
       THEN /\ pc' = [pc EXCEPT ![w] = "send"]
            /\ response' = [response EXCEPT ![w] = Error(DispatchError(m))]
       ELSE /\ pc' = [pc EXCEPT ![w] = "enter"]
            /\ response' = response
    /\ stale' = [stale EXCEPT ![w] = /\ Handler(m) = "execute"
                                     /\ m.instance.isint
                                     /\ m.instance.id \in closed]
    /\ decoded' = decoded + 1
    /\ owed' = [owed EXCEPT ![w] = @ + 1]
    /\ UNCHANGED <<nsvars, lock, heap, ret, _inst_ids, todo, entry,
                   outstanding, closed>>

\* A message arrives from a peer that sends what it likes.
Receive(w) ==
    /\ decoded < MaxReqs
    /\ \E m \in Requests : Dispatch(w, m)
    /\ UNCHANGED extra

\* Worker._receive reads zero bytes: _dispatch returns False.
EndOfStream(w) ==
    /\ pc[w] = "recv"
    /\ request' = [request EXCEPT ![w] = None]
    /\ pc' = [pc EXCEPT ![w] = "closing"]
    /\ UNCHANGED <<nsvars, lock, heap, response, ret, _inst_ids, todo, decoded,
                   owed, entry, outstanding, closed, stale>>

\* The peer has closed the stream.
StreamEnd(w) ==
    /\ EndOfStream(w)
    /\ UNCHANGED extra

\* A handler that makes its test and goes on without taking the lock.
EnterCritical_NoLock(w) ==
    /\ pc[w] = "enter"
    /\ IF CheckError(request[w]) # ""
       THEN Leave(w, Error(CheckError(request[w])))
       ELSE /\ lock' = w
            /\ entry' = Snapshot
            /\ pc' = [pc EXCEPT ![w] = "act"]
            /\ response' = response
    /\ UNCHANGED <<nsvars, heap, request, ret, _inst_ids, todo, decoded, owed,
                   outstanding, closed, stale>>
    /\ UNCHANGED extra

\* A handler enters its `with self._namespace:` block and makes its test.
EnterCritical(w) ==
    /\ pc[w] = "enter"
    /\ LockFree
    /\ IF CheckError(request[w]) # ""
       THEN Leave(w, Error(CheckError(request[w])))
       ELSE /\ lock' = w
            /\ entry' = Snapshot
            /\ pc' = [pc EXCEPT ![w] = "act"]
            /\ response' = response
    /\ UNCHANGED <<nsvars, heap, request, ret, _inst_ids, todo, decoded, owed,
                   outstanding, closed, stale>>
    /\ UNCHANGED extra

\* The objects a call of a provider can return.
Constructed(provider) ==
    IF provider = "int"
    THEN {[obj |-> Interned, at |-> id(Interned), fresh |-> FALSE]}
    ELSE IF CanAllocate
    THEN {[obj |-> NewObject, at |-> a, fresh |-> TRUE] : a \in FreeAddr}
    ELSE {}

\* Worker._action_open, 'provider' branch
ActionOpenProvider(w) ==
    /\ pc[w] = "act"
    /\ Handler(request[w]) = "open_provider"
    /\ \/ /\ Leave(w, Error("Exception"))
          /\ UNCHANGED <<nsvars, heap, _inst_ids, outstanding>>
       \/ \E c \in Constructed(types[request[w].provider]) :
            /\ heap' = IF c.fresh THEN Append(heap, c.at) ELSE heap
            /\ add(c.obj, c.at, w, NoName)
            /\ Count(c.at, w, outstanding[c.at][w] + 1)
            /\ _inst_ids' = [_inst_ids EXCEPT ![w] = @ \cup {c.at}]
            /\ Leave(w, Response("reference", c.at))
            /\ types' = types
    /\ UNCHANGED <<request, ret, todo, decoded, owed, closed, stale>>
    /\ UNCHANGED extra

\* An open that acquires the instance and keeps no record of it.
ActionOpenInstance_NoRecord(w) ==
    /\ pc[w] = "act"
    /\ Handler(request[w]) = "open_instance"
    /\ LET instance == request[w].instance IN
       IF acquire_KeyError(instance)
       THEN /\ Leave(w, Error("KeyError"))
            /\ UNCHANGED <<nsvars, _inst_ids, outstanding>>
       ELSE /\ acquire(instance.id, w)
            /\ Count(instance.id, w, outstanding[instance.id][w] + 1)
            /\ _inst_ids' = _inst_ids
            /\ Leave(w, Response("reference", instance.id))
            /\ types' = types
    /\ UNCHANGED <<heap, request, ret, todo, decoded, owed, closed, stale>>
    /\ UNCHANGED extra

\* Worker._action_open, 'instance' branch
ActionOpenInstance(w) ==
    /\ pc[w] = "act"
    /\ Handler(request[w]) = "open_instance"
    /\ LET instance == request[w].instance IN
       IF acquire_KeyError(instance)
       THEN /\ Leave(w, Error("KeyError"))
            /\ UNCHANGED <<nsvars, _inst_ids, outstanding>>
       ELSE /\ acquire(instance.id, w)
            /\ Count(instance.id, w, outstanding[instance.id][w] + 1)
            /\ _inst_ids' = [_inst_ids EXCEPT ![w] = @ \cup {instance.id}]
            /\ Leave(w, Response("reference", instance.id))
            /\ types' = types
    /\ UNCHANGED <<heap, request, ret, todo, decoded, owed, closed, stale>>
    /\ UNCHANGED extra

\* A close whose release pops the instance's table before it looks the
\* owner up in it.
ActionClose_PopsTable(w) ==
    /\ pc[w] = "act"
    /\ Handler(request[w]) = "close"
    /\ LET instance == request[w].instance IN
       IF release_KeyError(instance, w)
       THEN /\ Leave(w, Error("KeyError"))
            /\ _ref_counts' = IF instance.isint THEN Del(_ref_counts, instance.id)
                              ELSE _ref_counts
            /\ UNCHANGED <<types, _instances, _instances_by_name, _inst_ids,
                           outstanding>>
       ELSE /\ release(instance.id, w)
            /\ Count(instance.id, w, outstanding[instance.id][w] - 1)
            /\ types' = types
            /\ _inst_ids' = IF released(instance.id, w)
                            THEN [_inst_ids EXCEPT ![w] = @ \ {instance.id}]
                            ELSE _inst_ids
            /\ Leave(w, Response("value", "None"))
    /\ closed' = closed \cup (DOMAIN _instances \ DOMAIN _instances')
    /\ UNCHANGED <<heap, request, ret, todo, decoded, owed, stale>>
    /\ UNCHANGED extra

\* Worker._action_close
ActionClose(w) ==
    /\ pc[w] = "act"
    /\ Handler(request[w]) = "close"
    /\ LET instance == request[w].instance IN
       IF release_KeyError(instance, w)
       THEN /\ Leave(w, Error("KeyError"))
            /\ UNCHANGED <<nsvars, _inst_ids, outstanding>>
       ELSE /\ release(instance.id, w)
            /\ Count(instance.id, w, outstanding[instance.id][w] - 1)
            /\ types' = types
            /\ IF ~released(instance.id, w)
               THEN /\ _inst_ids' = _inst_ids
                    /\ Leave(w, Response("value", "None"))
               ELSE IF instance.id \in _inst_ids[w]
               THEN /\ _inst_ids' = [_inst_ids EXCEPT ![w] = @ \ {instance.id}]
                    /\ Leave(w, Response("value", "None"))
               ELSE /\ _inst_ids' = _inst_ids
                    /\ Leave(w, Error("KeyError"))
    /\ closed' = closed \cup (DOMAIN _instances \ DOMAIN _instances')
    /\ UNCHANGED <<heap, request, ret, todo, decoded, owed, stale>>
    /\ UNCHANGED extra

\* What the invoked method can return: a plain value, a new object, or an
\* object the Namespace already stores (the instance itself, for one).
Returned ==
    {[ret |-> Plain(v), at |-> 0, fresh |-> FALSE] : v \in PlainValues}
    \cup {[ret |-> Object(o), at |-> id(o), fresh |-> FALSE] :
            o \in Values(_instances) \ {Interned}}
    \cup (IF CanAllocate
          THEN {[ret |-> Object(NewObject), at |-> a, fresh |-> TRUE] :
                  a \in FreeAddr}
          ELSE {})

\* Worker._action_execute
ActionExecute(w) ==
    /\ pc[w] = "act"
    /\ Handler(request[w]) = "execute"
    /\ \/ /\ Leave(w, Error(IF contains(request[w].instance)
                            THEN "Exception" ELSE "KeyError"))
          /\ UNCHANGED <<nsvars, heap, ret, _inst_ids, outstanding>>
       \/ /\ contains(request[w].instance)
          /\ \E r \in Returned :
               /\ ret' = [ret EXCEPT ![w] = r.ret]
               /\ heap' = IF r.fresh THEN Append(heap, r.at) ELSE heap
               /\ IF r.ret.plain
                  THEN /\ Leave(w, Response("value", r.ret.value))
                       /\ UNCHANGED <<nsvars, _inst_ids, outstanding>>
                  ELSE /\ add(r.ret.obj, r.at, w, NoName)
                       /\ Count(r.at, w, outstanding[r.at][w] + 1)
                       /\ _inst_ids' = [_inst_ids EXCEPT ![w] = @ \cup {r.at}]
                       /\ Leave(w, Response("reference", r.at))
                       /\ types' = types
    /\ UNCHANGED <<request, todo, decoded, owed, closed, stale>>
    /\ UNCHANGED extra

\* Worker._dispatch: sendall(response), and back to _receive
Reply(w) ==
    /\ pc[w] = "send"
    /\ owed' = [owed EXCEPT ![w] = @ - 1]
    /\ request' = [request EXCEPT ![w] = NoRequest]
    /\ response' = [response EXCEPT ![w] = NoResponse]
    /\ ret' = [ret EXCEPT ![w] = NoRet]
    /\ stale' = [stale EXCEPT ![w] = FALSE]
    /\ pc' = [pc EXCEPT ![w] = "recv"]
    /\ UNCHANGED <<nsvars, lock, heap, _inst_ids, todo, decoded, entry,
                   outstanding, closed>>

\* The response goes to a peer that is not modelled further.
Send(w) ==
    /\ Reply(w)
    /\ UNCHANGED extra

\* Worker._init_serdes: a new Packer and a new Unpacker, the next pair.
_init_serdes(w) == serdes' = [serdes EXCEPT ![w] = @ + 1]

\* A _receive that resets the serdes and goes on with its loop.
DecodeFailure_NoRaise(w) ==
    /\ pc[w] = "recv"
    /\ _init_serdes(w)
    /\ UNCHANGED <<nsvars, lock, heap, pc, request, response, ret, _inst_ids,
                   todo, decoded, owed, entry, outstanding, closed, stale>>
    /\ UNCHANGED others

\* The unpacker raises on the bytes it was fed: _receive resets the serdes
\* and re-raises, and the exception leaves _dispatch and the loop.
DecodeFailure(w) ==
    /\ pc[w] = "recv"
    /\ _init_serdes(w)
    /\ pc' = [pc EXCEPT ![w] = "closing"]
    /\ UNCHANGED <<nsvars, lock, heap, request, response, ret, _inst_ids, todo,
                   decoded, owed, entry, outstanding, closed, stale>>
    /\ UNCHANGED others

\* sendall raises (the peer is gone): the exception leaves _dispatch and the
\* loop, and with it the locals of _dispatch.
SendFailure(w) ==
    /\ pc[w] = "send"
    /\ owed' = [owed EXCEPT ![w] = 0]
    /\ request' = [request EXCEPT ![w] = NoRequest]
    /\ response' = [response EXCEPT ![w] = NoResponse]
    /\ ret' = [ret EXCEPT ![w] = NoRet]
    /\ stale' = [stale EXCEPT ![w] = FALSE]
    /\ pc' = [pc EXCEPT ![w] = "closing"]
    /\ UNCHANGED <<nsvars, lock, heap, _inst_ids, todo, decoded, entry,
                   outstanding, closed>>
    /\ UNCHANGED extra

\* The constructor or the method a handler invokes inside its `with` block
\* never returns: the worker stays in the block, the lock taken.
Hang(w) ==
    /\ pc[w] = "act"
    /\ Handler(request[w]) \in {"open_provider", "execute"}
    /\ pc' = [pc EXCEPT ![w] = "hung"]
    /\ UNCHANGED <<nsvars, lock, heap, request, response, ret, _inst_ids, todo,
                   decoded, owed, entry, outstanding, closed, stale>>
    /\ UNCHANGED extra

\* A Worker.run that releases its references after the loop's orderly end
\* only, not in a `finally`: an exception ends the thread at once.
CleanupEnter_OrderlyOnly(w) ==
    /\ pc[w] = "closing"
    /\ IF request[w] = None
       THEN /\ LockFree
            /\ lock' = w
            /\ entry' = Snapshot
            /\ todo' = [todo EXCEPT ![w] = _inst_ids[w]]
            /\ pc' = [pc EXCEPT ![w] = "cleanup"]
       ELSE /\ pc' = [pc EXCEPT ![w] = "done"]
            /\ UNCHANGED <<lock, entry, todo>>
    /\ UNCHANGED <<nsvars, heap, request, response, ret, _inst_ids, decoded, owed,
                   outstanding, closed, stale>>
    /\ UNCHANGED extra

\* ------------------------------------------------- Worker.run, finally:
\* the socket is closed and the lock taken for release_all
CleanupEnter(w) ==
    /\ pc[w] = "closing"
    /\ LockFree
    /\ lock' = w
    /\ entry' = Snapshot
    /\ todo' = [todo EXCEPT ![w] = _inst_ids[w]]
    /\ pc' = [pc EXCEPT ![w] = "cleanup"]
    /\ UNCHANGED <<nsvars, heap, request, response, ret, _inst_ids, decoded, owed,
                   outstanding, closed, stale>>
    /\ UNCHANGED extra

\* A pass that drops the id's whole table and the instance with it.
ReleaseAllPass_DropsTable(w) ==
    /\ pc[w] = "cleanup"
    /\ \E inst_id \in todo[w] :
         IF release_all_KeyError(inst_id, w)
         THEN /\ lock' = NoOwner
              /\ entry' = NoSnapshot
              /\ pc' = [pc EXCEPT ![w] = "done"]
              /\ UNCHANGED <<nsvars, todo, outstanding>>
         ELSE /\ _ref_counts' = Del(_ref_counts, inst_id)
              /\ _instances' = Del(_instances, inst_id)
              /\ Count(inst_id, w, 0)
              /\ todo' = [todo EXCEPT ![w] = @ \ {inst_id}]
              /\ UNCHANGED <<types, _instances_by_name, lock, entry, pc>>
    /\ UNCHANGED <<heap, request, response, ret, _inst_ids, decoded, owed, closed,
                   stale>>
    /\ UNCHANGED extra

\* one pass of release_all's loop over the acquisition set
ReleaseAllPass(w) ==
    /\ pc[w] = "cleanup"
    /\ \E inst_id \in todo[w] :
         IF release_all_KeyError(inst_id, w)
         THEN /\ lock' = NoOwner
              /\ entry' = NoSnapshot
              /\ pc' = [pc EXCEPT ![w] = "done"]
              /\ UNCHANGED <<nsvars, todo, outstanding>>
         ELSE /\ release_all(inst_id, w)
              /\ Count(inst_id, w, 0)
              /\ todo' = [todo EXCEPT ![w] = @ \ {inst_id}]
              /\ UNCHANGED <<types, lock, entry, pc>>
    /\ UNCHANGED <<heap, request, response, ret, _inst_ids, decoded, owed, closed,
                   stale>>
    /\ UNCHANGED extra

\* release_all returns, the lock is released and the thread ends
CleanupExit(w) ==
    /\ pc[w] = "cleanup"
    /\ todo[w] = {}
    /\ lock' = NoOwner
    /\ entry' = NoSnapshot
    /\ pc' = [pc EXCEPT ![w] = "done"]
    /\ UNCHANGED <<nsvars, heap, request, response, ret, _inst_ids, todo,
                   decoded, owed, outstanding, closed, stale>>
    /\ UNCHANGED extra

\* ----------------------------------------------------------------- Server
\* The instance handed to Server.register: an object of the caller's that the
\* Namespace does not store yet.
Registrable ==
    IF CanAllocate
    THEN {[obj |-> NewObject, at |-> a, fresh |-> TRUE] : a \in FreeAddr}
    ELSE {}

\* Server.register: the whole `with` block; a bound name raises KeyError
register(name) ==
    /\ LockFree
    /\ IF contains(NameKey(name))
       THEN UNCHANGED <<nsvars, heap, outstanding>>
       ELSE \E c \in Registrable :
            /\ heap' = Append(heap, c.at)
            /\ add(c.obj, c.at, ServerOwner, name)
            /\ Count(c.at, ServerOwner, outstanding[c.at][ServerOwner] + 1)
            /\ types' = types
    /\ UNCHANGED <<lock, pc, request, response, ret, _inst_ids, todo, decoded, owed,
                   entry, closed, stale>>
    /\ UNCHANGED extra

\* Server.register_type: the whole `with` block, name = provider.__name__;
\* a bound name raises KeyError
register_type(provider) ==
    /\ LockFree
    /\ IF provider \in DOMAIN types
       THEN types' = types
       ELSE types' = Put(types, provider, provider)
    /\ UNCHANGED <<_instances, _instances_by_name, _ref_counts, lock, heap, pc,
                   request, response, ret, _inst_ids, todo, decoded, owed,
                   entry, outstanding, closed, stale>>
    /\ UNCHANGED extra

\* ----------------------------------- Server.register*, statement by statement
\* What these steps leave alone: the workers, which serve no connection here.
idle == <<pc, request, response, ret, _inst_ids, todo, decoded, owed, closed,
          stale, framevars, listvars, clivars, serdes, apivars>>

\* The calls made so far.
Calls == Total([c \in Callers |-> reg[c].calls], Callers)

\* provider.__name__
__name__(provider) == provider

\* Server.register_type up to its `with`: the default name, the type check
register_type_call(c, provider, name) ==
    /\ reg[c].pc = "idle"
    /\ Calls < MaxCalls
    /\ reg' = [reg EXCEPT ![c] =
         IF name # NoName /\ name = NotAString
         THEN Idle("ValueError", @.calls + 1)
         ELSE [pc |-> "enter", op |-> "register_type",
               name |-> IF name = NoName THEN __name__(provider) ELSE name,
               provider |-> provider, inst |-> 0, raised |-> "",
               calls |-> @.calls + 1]]
    /\ UNCHANGED <<nsvars, lock, heap, entry, outstanding>>
    /\ UNCHANGED idle

\* Server.register up to its `with`: the type check.  inst is the object
\* passed, 0 for one the Namespace does not store.
register_call(c, inst, name) ==
    /\ reg[c].pc = "idle"
    /\ Calls < MaxCalls
    /\ reg' = [reg EXCEPT ![c] =
         IF name = NotAString
         THEN Idle("ValueError", @.calls + 1)
         ELSE [pc |-> "enter", op |-> "register", name |-> name,
               provider |-> "", inst |-> inst, raised |-> "",
               calls |-> @.calls + 1]]
    /\ UNCHANGED <<nsvars, lock, heap, entry, outstanding>>
    /\ UNCHANGED idle

\* `with self._namespace:` of either
register_enter(c) ==
    /\ reg[c].pc = "enter"
    /\ LockFree
    /\ lock' = c
    /\ entry' = Snapshot
    /\ reg' = [reg EXCEPT ![c].pc = "check"]
    /\ UNCHANGED <<nsvars, heap, outstanding>>
    /\ UNCHANGED idle

\* A register_type that binds the name whether or not it is bound.
register_type_check_NoTest(c) ==
    /\ reg[c].pc = "check"
    /\ reg[c].op = "register_type"
    /\ reg' = [reg EXCEPT ![c].pc = "insert"]
    /\ UNCHANGED <<nsvars, lock, heap, entry, outstanding>>
    /\ UNCHANGED idle

\* Server.register_type: if name in self._namespace.types: raise KeyError
register_type_check(c) ==
    /\ reg[c].pc = "check"
    /\ reg[c].op = "register_type"
    /\ IF reg[c].name \in DOMAIN types
       THEN /\ reg' = [reg EXCEPT ![c] = Idle("KeyError", @.calls)]
            /\ lock' = NoOwner
            /\ entry' = NoSnapshot
       ELSE /\ reg' = [reg EXCEPT ![c].pc = "insert"]
            /\ UNCHANGED <<lock, entry>>
    /\ UNCHANGED <<nsvars, heap, outstanding>>
    /\ UNCHANGED idle

\* Server.register_type: self._namespace.types[name] = provider
register_type_insert(c) ==
    /\ reg[c].pc = "insert"
    /\ reg[c].op = "register_type"
    /\ types' = Put(types, reg[c].name, reg[c].provider)
    /\ reg' = [reg EXCEPT ![c] = Idle("", @.calls)]
    /\ lock' = NoOwner
    /\ entry' = NoSnapshot
    /\ UNCHANGED <<_instances, _instances_by_name, _ref_counts, heap, outstanding>>
    /\ UNCHANGED idle

\* A register that binds the name whether or not it is bound.
register_check_NoTest(c) ==
    /\ reg[c].pc = "check"
    /\ reg[c].op = "register"
    /\ reg' = [reg EXCEPT ![c].pc = "insert"]
    /\ UNCHANGED <<nsvars, lock, heap, entry, outstanding>>
    /\ UNCHANGED idle

\* Server.register: if name in self._namespace: raise KeyError
register_check(c) ==
    /\ reg[c].pc = "check"
    /\ reg[c].op = "register"
    /\ IF contains(NameKey(reg[c].name))
       THEN /\ reg' = [reg EXCEPT ![c] = Idle("KeyError", @.calls)]
            /\ lock' = NoOwner
            /\ entry' = NoSnapshot
       ELSE /\ reg' = [reg EXCEPT ![c].pc = "insert"]
            /\ UNCHANGED <<lock, entry>>
    /\ UNCHANGED <<nsvars, heap, outstanding>>
    /\ UNCHANGED idle

\* The object passed to Server.register: one the Namespace stores, or one
\* it does not store, which is live and so at an address of its own.
Passed(inst) ==
    IF inst # 0
    THEN {[obj |-> inst, at |-> id(inst), fresh |-> FALSE]}
    ELSE Registrable

\* Server.register: inst_id = id(instance); add(instance, inst_id, self, name)
register_insert(c) ==
    /\ reg[c].pc = "insert"
    /\ reg[c].op = "register"
    /\ \E i \in Passed(reg[c].inst) :
         /\ heap' = IF i.fresh THEN Append(heap, i.at) ELSE heap
         /\ add(i.obj, i.at, ServerOwner, reg[c].name)
         /\ Count(i.at, ServerOwner, outstanding[i.at][ServerOwner] + 1)
    /\ types' = types
    /\ reg' = [reg EXCEPT ![c] = Idle("", @.calls)]
    /\ lock' = NoOwner
    /\ entry' = NoSnapshot
    /\ UNCHANGED idle

RegNext ==
    \/ \E c \in Callers, provider \in Providers,
          name \in TypeNames \cup {NoName, NotAString} :
            register_type_call(c, provider, name)
    \/ \E c \in Callers, inst \in {0} \cup Values(_instances),
          name \in InstanceNames \cup {NotAString} :
            register_call(c, inst, name)
    \/ \E c \in Callers : register_enter(c)
    \/ \E c \in Callers : register_type_check(c)
    \/ \E c \in Callers : register_type_insert(c)
    \/ \E c \in Callers : register_check(c)
    \/ \E c \in Callers : register_insert(c)

RegSpec == Init /\ [][RegNext]_vars

\* ------------------------------------------- Worker._receive, byte by byte
\* One connection.  The peer writes packed requests back to back, request k
\* being bytes (k-1)*FrameLen+1 .. k*FrameLen of the stream; recv returns
\* a chunk of the bytes written and not yet read, cut wherever the transport
\* cuts it.
frozen == <<types, _instances, _instances_by_name, _ref_counts, lock, heap, pc,
            request, response, ret, _inst_ids, todo, decoded, owed, entry,
            outstanding, closed, stale, reg, listvars, clivars, serdes,
            apivars>>

\* Bytes the unpacker holds: fed and not part of a message it has yielded.
Buffered == fed - unpacked * FrameLen

\* The peer writes n more bytes.
PeerWrite(n) ==
    /\ ~eof
    /\ stream + n <= MaxFrames * FrameLen
    /\ stream' = stream + n
    /\ UNCHANGED <<eof, fed, unpacked, at, answered, frozen>>

\* The peer closes the connection.
PeerClose ==
    /\ ~eof
    /\ eof' = TRUE
    /\ UNCHANGED <<stream, fed, unpacked, at, answered, frozen>>

\* A _receive whose unpacker yields the newest complete message and drops
\* the ones before it.
Recv_NewestFirst(n) ==
    /\ at = "recv"
    /\ n <= stream - fed
    /\ fed' = fed + n
    /\ IF Buffered + n >= FrameLen
       THEN /\ unpacked' = (fed + n) \div FrameLen
            /\ at' = "dispatch"
       ELSE UNCHANGED <<unpacked, at>>
    /\ UNCHANGED <<stream, eof, answered, frozen>>

\* Worker._receive: chunk = recv(1048576), n bytes long; feed(chunk);
\* `for request in self._unpacker: return request` returns the first
\* message if the buffer holds a whole one, and else the loop recvs again.
Recv(n) ==
    /\ at = "recv"
    /\ n <= stream - fed
    /\ fed' = fed + n
    /\ IF Buffered + n >= FrameLen
       THEN /\ unpacked' = unpacked + 1
            /\ at' = "dispatch"
       ELSE UNCHANGED <<unpacked, at>>
    /\ UNCHANGED <<stream, eof, answered, frozen>>

\* Worker._receive: recv returns b'' (every byte read, the peer closed):
\* return None, and _dispatch returns False
RecvEnd ==
    /\ at = "recv"
    /\ eof
    /\ stream = fed
    /\ at' = "closed"
    /\ UNCHANGED <<stream, eof, fed, unpacked, answered, frozen>>

\* Worker._dispatch: the handler runs, sendall(response), return True
Respond ==
    /\ at = "dispatch"
    /\ answered' = Append(answered, unpacked)
    /\ at' = "recv"
    /\ UNCHANGED <<stream, eof, fed, unpacked, frozen>>

FrameNext ==
    \/ \E n \in 1..(MaxFrames * FrameLen) : PeerWrite(n)
    \/ PeerClose
    \/ \E n \in 1..(MaxFrames * FrameLen) : Recv(n)
    \/ RecvEnd
    \/ Respond

FrameSpec == Init /\ [][FrameNext]_vars

\* ------------------------------------------------ values through msgpack
\* Python values: [t |-> type, v |-> content].  A float is named by its
\* literal, an integer is its magnitude in 16-bit limbs, least first, a list
\* or tuple is the sequence of its elements and a map the sequence of its
\* <<key, value>> pairs.
Float(x) == [t |-> "float", v |-> x]
Str(x) == [t |-> "str", v |-> x]
Bytes(x) == [t |-> "bytes", v |-> x]
Integer(limbs) == [t |-> "int", v |-> limbs]
List(xs) == [t |-> "list", v |-> xs]
Map(kvs) == [t |-> "map", v |-> kvs]
NaN == Float("nan")

\* The cases of test_list, and with them a bytes and a string of the same
\* content, a NaN, a list holding one and the integer 2**64.
Cases ==
    <<Float("1.1"), Str("1.1"), Integer(<<1>>),
      List(<<Str("test"), Integer(<<1>>)>>),
      Map(<<<<Str("key"), Str("value")>>, <<Integer(<<1>>), Float("1.1")>>>>),
      Bytes("some_bytes"), Str("a_str"), Str("abc"), Bytes("1.1"),
      NaN, List(<<NaN>>), Integer(<<0, 0, 0, 0, 1>>)>>

\* msgpack's integer formats end at 64 bits.
IntLimbs == 4

\* The same value, written twice.
RECURSIVE Same(_, _)
Same(a, b) ==
    IF a.t # b.t THEN FALSE
    ELSE IF a.t \in {"list", "tuple"}
         THEN /\ Len(a.v) = Len(b.v)
              /\ \A i \in 1..Len(a.v) : Same(a.v[i], b.v[i])
    ELSE IF a.t = "map"
         THEN /\ Len(a.v) = Len(b.v)
              /\ \A i \in 1..Len(a.v) :
                    /\ Same(a.v[i][1], b.v[i][1])
                    /\ Same(a.v[i][2], b.v[i][2])
    ELSE a.v = b.v

\* Python's ==.  Values of different types here are never equal (no float
\* in Cases has an integral value), and a NaN equals nothing, itself included.
RECURSIVE Eq(_, _)
Eq(a, b) ==
    IF a.t # b.t THEN FALSE
    ELSE IF a.t = "float" THEN a.v = b.v /\ a.v # "nan"
    ELSE IF a.t \in {"list", "tuple"}
         THEN /\ Len(a.v) = Len(b.v)
              /\ \A i \in 1..Len(a.v) : Eq(a.v[i], b.v[i])
    ELSE IF a.t = "map"
         THEN /\ Len(a.v) = Len(b.v)
              /\ \A i \in 1..Len(a.v) : \E j \in 1..Len(b.v) :
                    /\ Eq(a.v[i][1], b.v[j][1])
                    /\ Eq(a.v[i][2], b.v[j][2])
    ELSE a.v = b.v

\* Packer.pack raises OverflowError for an integer beyond 64 bits, wherever
\* it sits in the value.
RECURSIVE Packable(_)
Packable(x) ==
    IF x.t = "int" THEN Len(x.v) <= IntLimbs
    ELSE IF x.t \in {"list", "tuple"}
         THEN \A i \in 1..Len(x.v) : Packable(x.v[i])
    ELSE IF x.t = "map"
         THEN \A i \in 1..Len(x.v) : Packable(x.v[i][1]) /\ Packable(x.v[i][2])
    ELSE TRUE

\* msgpack.Packer(use_bin_type).pack: the msgpack object, [t |-> format,
\* v |-> content].  Without use_bin_type bytes take the str format.
RECURSIVE pack(_, _)
pack(use_bin_type, x) ==
    IF x.t = "float" THEN [t |-> "float64", v |-> x.v]
    ELSE IF x.t = "str" THEN [t |-> "str", v |-> x.v]
    ELSE IF x.t = "bytes"
         THEN [t |-> IF use_bin_type THEN "bin" ELSE "str", v |-> x.v]
    ELSE IF x.t = "int" THEN [t |-> "int", v |-> x.v]
    ELSE IF x.t \in {"list", "tuple"}
         THEN [t |-> "array",
               v |-> [i \in 1..Len(x.v) |-> pack(use_bin_type, x.v[i])]]
    ELSE [t |-> "map",
          v |-> [i \in 1..Len(x.v) |-> <<pack(use_bin_type, x.v[i][1]),
                                         pack(use_bin_type, x.v[i][2])>>]]

\* msgpack.Unpacker(use_list, raw, strict_map_key): with strict_map_key a
\* map key that is neither str nor bytes is refused.
RECURSIVE Unpackable(_, _)
Unpackable(strict_map_key, y) ==
    IF y.t = "array"
    THEN \A i \in 1..Len(y.v) : Unpackable(strict_map_key, y.v[i])
    ELSE IF y.t = "map"
         THEN \A i \in 1..Len(y.v) :
                /\ strict_map_key => y.v[i][1].t \in {"str", "bin"}
                /\ Unpackable(strict_map_key, y.v[i][1])
                /\ Unpackable(strict_map_key, y.v[i][2])
    ELSE TRUE

\* The value the Unpacker yields: an array as a list with use_list and
\* else as a tuple, the str format as str with raw=False and else as bytes.
RECURSIVE unpack(_, _, _)
unpack(use_list, raw, y) ==
    IF y.t = "float64" THEN Float(y.v)
    ELSE IF y.t = "str" THEN IF raw THEN Bytes(y.v) ELSE Str(y.v)
    ELSE IF y.t = "bin" THEN Bytes(y.v)
    ELSE IF y.t = "int" THEN Integer(y.v)
    ELSE IF y.t = "array"
         THEN [t |-> IF use_list THEN "list" ELSE "tuple",
               v |-> [i \in 1..Len(y.v) |-> unpack(use_list, raw, y.v[i])]]
    ELSE Map([i \in 1..Len(y.v) |-> <<unpack(use_list, raw, y.v[i][1]),
                                      unpack(use_list, raw, y.v[i][2])>>])

\* A packer that leaves use_bin_type at False.
_packer_NoBinType(x) == pack(FALSE, x)

\* self._packer = msgpack.Packer(use_bin_type=True), in Client and Worker
_packer(x) == pack(TRUE, x)

\* self._unpacker = msgpack.Unpacker(use_list=True, strict_map_key=False,
\* raw=False), in Client and Worker
_unpacker(y) == unpack(TRUE, FALSE, y)
Decodes(y) == Unpackable(FALSE, y)

\* What arrives at the other end of the socket.
Sent(x) == _unpacker(_packer(x))

\* --------------------------------------------------- a proxy of a remote list
offlist == <<types, _instances, _instances_by_name, _ref_counts, lock, heap,
             pc, request, response, ret, _inst_ids, todo, decoded, owed, entry,
             outstanding, closed, stale, reg, framevars, clivars, serdes,
             apivars>>

\* What a call gave the caller: the value of a `value` response, or the
\* exception raised.
Value(op, item, value) ==
    [op |-> op, item |-> item, type |-> "value", value |-> value]
Raised(op, item, exc) ==
    [op |-> op, item |-> item, type |-> "raised", value |-> exc]

\* obj.append(item): Proxy.__getattr__, then Proxy.__call__ with the item.
\* Client._request packs the request before anything is sent; the worker
\* calls list.append with what it unpacked and answers value None.
append(item) ==
    /\ Len(remote) < MaxItems
    /\ IF Packable(item) /\ Decodes(_packer(item))
       THEN /\ remote' = Append(remote, Sent(item))
            /\ items' = Append(items, item)
            /\ got' = Value("append", item, "None")
       ELSE /\ got' = Raised("append", item, "OverflowError")
            /\ UNCHANGED <<remote, items>>
    /\ UNCHANGED offlist

\* obj[-1]: Proxy.__getitem__; the worker packs list[-1] as a value
__getitem__ ==
    /\ remote # <<>>
    /\ got' = Value("getitem", items[Len(items)], Sent(remote[Len(remote)]))
    /\ UNCHANGED <<remote, items, offlist>>

\* item in obj: Proxy.__contains__; the worker compares what it unpacked
\* with each element of the list
__contains__(item) ==
    /\ got' = IF Packable(item)
              THEN Value("contains", item,
                         \E i \in 1..Len(remote) : Eq(remote[i], Sent(item)))
              ELSE Raised("contains", item, "OverflowError")
    /\ UNCHANGED <<remote, items, offlist>>

\* len(obj): Proxy.__len__
__len__ ==
    /\ got' = Value("len", "", Len(remote))
    /\ UNCHANGED <<remote, items, offlist>>

ListNext ==
    \/ \E k \in DOMAIN Cases : append(Cases[k])
    \/ __getitem__
    \/ \E k \in DOMAIN Cases : __contains__(Cases[k])
    \/ __len__

ListSpec == Init /\ [][ListNext]_vars

\* ----------------------------------------------------------- Client, Proxy
\* A client program: threads that share one Client and its proxies, and on
\* the server the worker of the Client's connection.
offcli == <<reg, framevars, listvars, serdes, apivars>>
server == <<types, _instances, _instances_by_name, _ref_counts, lock, heap, pc,
            request, response, ret, _inst_ids, todo, decoded, owed, entry,
            outstanding, closed, stale>>

\* Client.factory -> Client._open: the request is made, up to `with`
factory(t, provider) ==
    /\ cpc[t] = "idle"
    /\ _socket = "socket"
    /\ sends < MaxSends
    /\ sends' = sends + 1
    /\ call' = [call EXCEPT ![t] = Msg("map", "open", provider, NoKey)]
    /\ cpc' = [cpc EXCEPT ![t] = "lock"]
    /\ UNCHANGED <<_lock, _socket, outbox, inbox, serving, proxies, result>>
    /\ UNCHANGED <<server, offcli>>

\* A method of a live Proxy -> Client._execute, up to `with`
_execute(t, instance) ==
    /\ cpc[t] = "idle"
    /\ _socket = "socket"
    /\ proxies[instance] > 0
    /\ sends < MaxSends
    /\ sends' = sends + 1
    /\ call' = [call EXCEPT ![t] = Msg("map", "execute", "", IdKey(instance))]
    /\ cpc' = [cpc EXCEPT ![t] = "lock"]
    /\ UNCHANGED <<_lock, _socket, outbox, inbox, serving, proxies, result>>
    /\ UNCHANGED <<server, offcli>>

\* A finalizer that leaves the instance to the server.
Proxy__del___NoClose(t, instance) ==
    /\ cpc[t] = "idle"
    /\ proxies[instance] > 0
    /\ proxies' = [proxies EXCEPT ![instance] = @ - 1]
    /\ UNCHANGED <<call, cpc>>
    /\ UNCHANGED <<_lock, _socket, outbox, inbox, serving, result, sends>>
    /\ UNCHANGED <<server, offcli>>

\* Proxy.__del__, run by thread t: if self._cli.is_open, Client._close up
\* to `with`
Proxy__del__(t, instance) ==
    /\ cpc[t] = "idle"
    /\ proxies[instance] > 0
    /\ proxies' = [proxies EXCEPT ![instance] = @ - 1]
    /\ IF _socket # "None"
       THEN /\ call' = [call EXCEPT ![t] =
                          Msg("map", "close", "", IdKey(instance))]
            /\ cpc' = [cpc EXCEPT ![t] = "lock"]
       ELSE UNCHANGED <<call, cpc>>
    /\ UNCHANGED <<_lock, _socket, outbox, inbox, serving, result, sends>>
    /\ UNCHANGED <<server, offcli>>

\* A _request that sends without taking the lock.
_request_NoLock(t) ==
    /\ cpc[t] = "lock"
    /\ outbox' = Append(outbox, [from |-> t, msg |-> call[t]])
    /\ cpc' = [cpc EXCEPT ![t] = "recv"]
    /\ UNCHANGED <<_lock, _socket, call, inbox, serving, proxies, result, sends>>
    /\ UNCHANGED <<server, offcli>>

\* Client._request: with self._lock: sendall(pack(obj))
_request(t) ==
    /\ cpc[t] = "lock"
    /\ _lock = NoThread
    /\ _lock' = t
    /\ outbox' = Append(outbox, [from |-> t, msg |-> call[t]])
    /\ cpc' = [cpc EXCEPT ![t] = "recv"]
    /\ UNCHANGED <<_socket, call, inbox, serving, proxies, result, sends>>
    /\ UNCHANGED <<server, offcli>>

\* Client._request: obj = self._receive() takes the next response off the
\* socket, the lock is released, and the response type decides the outcome
\* (a value, a new Proxy, RemoteError raised)
_receive(t) ==
    /\ cpc[t] = "recv"
    /\ inbox # <<>>
    /\ LET obj == Head(inbox).resp IN
         /\ result' = [result EXCEPT ![t] =
               [kind |-> IF obj.type = "value" THEN "value"
                         ELSE IF obj.type = "reference" THEN "Proxy"
                         ELSE "RemoteError",
                value |-> obj.value, to |-> Head(inbox).to, resp |-> obj]]
         /\ proxies' = IF obj.type = "reference"
                       THEN [proxies EXCEPT ![obj.value] = @ + 1]
                       ELSE proxies
    /\ inbox' = Tail(inbox)
    /\ _lock' = IF _lock = t THEN NoThread ELSE _lock
    /\ cpc' = [cpc EXCEPT ![t] = "idle"]
    /\ UNCHANGED <<_socket, call, outbox, serving, sends>>
    /\ UNCHANGED <<server, offcli>>

\* Client.__del__: with self._lock: self._close_socket().  Finalizers of a
\* reference cycle, or at interpreter exit, run in no fixed order: the
\* Client can go before its proxies.
Client__del__ ==
    /\ \A t \in Apps : cpc[t] = "idle"
    /\ _lock = NoThread
    /\ _socket = "socket"
    /\ _socket' = "None"
    /\ UNCHANGED <<_lock, cpc, call, outbox, inbox, serving, proxies, result,
                   sends>>
    /\ UNCHANGED <<server, offcli>>

\* The worker's _receive yields the Client's next request.
Serve ==
    /\ outbox # <<>>
    /\ Dispatch(Conn, Head(outbox).msg)
    /\ outbox' = Tail(outbox)
    /\ serving' = Head(outbox).from
    /\ UNCHANGED <<_lock, _socket, cpc, call, inbox, proxies, result, sends>>
    /\ UNCHANGED offcli

\* The worker's sendall(response) puts the response on the socket.
Answer ==
    /\ inbox' = Append(inbox, [to |-> serving, resp |-> response[Conn]])
    /\ Reply(Conn)
    /\ serving' = NoThread
    /\ UNCHANGED <<_lock, _socket, cpc, call, outbox, proxies, result, sends>>
    /\ UNCHANGED offcli

\* The Client has closed its socket: the worker's recv returns b''.
Hangup ==
    /\ _socket = "None"
    /\ outbox = <<>>
    /\ EndOfStream(Conn)
    /\ UNCHANGED clivars
    /\ UNCHANGED offcli

ClientNext ==
    \/ \E t \in Apps, provider \in Providers : factory(t, provider)
    \/ \E t \in Apps, instance \in Addr : _execute(t, instance)
    \/ \E t \in Apps, instance \in Addr : Proxy__del__(t, instance)
    \/ \E t \in Apps : _request(t)
    \/ \E t \in Apps : _receive(t)
    \/ Client__del__
    \/ Serve
    \/ Answer
    \/ Hangup
    \/ EnterCritical(Conn)
    \/ ActionOpenProvider(Conn)
    \/ ActionClose(Conn)
    \/ ActionExecute(Conn)
    \/ CleanupEnter(Conn)
    \/ ReleaseAllPass(Conn)
    \/ CleanupExit(Conn)
    \/ \E name \in Names : register(name)
    \/ \E provider \in Providers : register_type(provider)

ClientSpec == Init /\ [][ClientNext]_vars

\* ------------------------------------------- the Namespace, called directly
\* A program that holds a Namespace and calls its methods itself, with any
\* owner and any name.
offapi == <<types, lock, pc, request, response, ret, _inst_ids, todo, decoded,
            owed, entry, outstanding, closed, stale, serdes, reg, framevars,
            listvars, clivars>>

\* The objects a caller can pass: a new one, or one the Namespace stores.
Passable ==
    Registrable
    \cup {[obj |-> o, at |-> id(o), fresh |-> FALSE] : o \in Values(_instances)}

\* Namespace.add(instance, id(instance), owner, name)
Namespace_add(owner, name) ==
    /\ applied < MaxApplied
    /\ \E c \in Passable :
         /\ heap' = IF c.fresh THEN Append(heap, c.at) ELSE heap
         /\ add(c.obj, c.at, owner, name)
    /\ applied' = applied + 1
    /\ thrown' = ""
    /\ UNCHANGED offapi

\* Namespace.acquire(inst_id, owner)
Namespace_acquire(inst_id, owner) ==
    /\ applied < MaxApplied
    /\ IF acquire_KeyError(IdKey(inst_id))
       THEN /\ thrown' = "KeyError"
            /\ UNCHANGED <<_instances, _instances_by_name, _ref_counts>>
       ELSE /\ acquire(inst_id, owner)
            /\ thrown' = ""
    /\ applied' = applied + 1
    /\ UNCHANGED <<heap, offapi>>

\* Namespace.release(inst_id, owner)
Namespace_release(inst_id, owner) ==
    /\ applied < MaxApplied
    /\ IF release_KeyError(IdKey(inst_id), owner)
       THEN /\ thrown' = "KeyError"
            /\ UNCHANGED <<_instances, _instances_by_name, _ref_counts>>
       ELSE /\ release(inst_id, owner)
            /\ thrown' = ""
    /\ applied' = applied + 1
    /\ UNCHANGED <<heap, offapi>>

NamespaceNext ==
    \/ \E owner \in Threads, name \in Names \cup {NoName} :
         Namespace_add(owner, name)
    \/ \E inst_id \in Addr, owner \in Threads :
         Namespace_acquire(inst_id, owner)
    \/ \E inst_id \in Addr, owner \in Threads :
         Namespace_release(inst_id, owner)

NamespaceSpec == Init /\ [][NamespaceNext]_vars

\* -------------------------------------------------------------------- Next
Next ==
    \/ \E w \in Workers : Receive(w)
    \/ \E w \in Workers : StreamEnd(w)
    \/ \E w \in Workers : EnterCritical(w)
    \/ \E w \in Workers : ActionOpenProvider(w)
    \/ \E w \in Workers : ActionOpenInstance(w)
    \/ \E w \in Workers : ActionClose(w)
    \/ \E w \in Workers : ActionExecute(w)
    \/ \E w \in Workers : Send(w)
    \/ \E w \in Workers : DecodeFailure(w)
    \/ \E w \in Workers : SendFailure(w)
    \/ \E w \in Workers : Hang(w)
    \/ \E w \in Workers : CleanupEnter(w)
    \/ \E w \in Workers : ReleaseAllPass(w)
    \/ \E w \in Workers : CleanupExit(w)
    \/ \E name \in Names : register(name)
    \/ \E provider \in Providers : register_type(provider)

Spec == Init /\ [][Next]_vars

\* The steps a worker thread takes by itself, once it has a request or has
\* left its loop (a method that hangs is no step).
Progress(w) ==
    \/ EnterCritical(w)
    \/ ActionOpenProvider(w)
    \/ ActionOpenInstance(w)
    \/ ActionClose(w)
    \/ ActionExecute(w)
    \/ Send(w)
    \/ CleanupEnter(w)
    \/ ReleaseAllPass(w)
    \/ CleanupExit(w)

\* A thread that can run does run: a handler that has the lock finishes, a
\* response is sent (or the send fails), a thread waiting for a lock that
\* stays free takes it, the cleanup runs through.
Fairness == \A w \in Workers : WF_vars(Progress(w))

\* Receive, with fewer messages.
LiveReceive(w) ==
    /\ decoded < MaxLiveReqs
    /\ Receive(w)

LiveNext ==
    \/ \E w \in Workers : LiveReceive(w)
    \/ \E w \in Workers : StreamEnd(w)
    \/ \E w \in Workers : EnterCritical(w)
    \/ \E w \in Workers : ActionOpenProvider(w)
    \/ \E w \in Workers : ActionOpenInstance(w)
    \/ \E w \in Workers : ActionClose(w)
    \/ \E w \in Workers : ActionExecute(w)
    \/ \E w \in Workers : Send(w)
    \/ \E w \in Workers : DecodeFailure(w)
    \/ \E w \in Workers : SendFailure(w)
    \/ \E w \in Workers : Hang(w)
    \/ \E w \in Workers : CleanupEnter(w)
    \/ \E w \in Workers : ReleaseAllPass(w)
    \/ \E w \in Workers : CleanupExit(w)
    \/ \E name \in Names : register(name)
    \/ \E provider \in Providers : register_type(provider)

LiveSpec == Init /\ [][LiveNext]_vars /\ Fairness

\* ================================================================ claims
Owners(i) == IF i \in DOMAIN _ref_counts THEN DOMAIN _ref_counts[i] ELSE {}
InCritical(w) == pc[w] \in {"act", "hung", "cleanup"}

\* C1: whenever no thread is inside a critical section, the ids in instance
\* storage are the ids of the reference table, every table has an owner and
\* every count in it is at least 1.
C1_StorageMatchesTable ==
    lock = NoOwner =>
        /\ DOMAIN _instances = DOMAIN _ref_counts
        /\ \A i \in DOMAIN _ref_counts :
             /\ DOMAIN _ref_counts[i] # {}
             /\ \A o \in DOMAIN _ref_counts[i] : _ref_counts[i][o] >= 1

\* An instance two owners hold, after the cleanup of a disconnected worker
\* has destroyed another one.
C1_Witness ==
    /\ lock = NoOwner
    /\ \E i \in DOMAIN _ref_counts : Cardinality(DOMAIN _ref_counts[i]) >= 2
    /\ \E w \in Workers :
         /\ pc[w] = "done"
         /\ \E i \in _inst_ids[w] : i \notin DOMAIN _instances

\* C2: an instance id is in the Namespace exactly while the add and acquire
\* calls made on it outnumber the releases (summed over its owners), so it
\* leaves at the release that brings that sum to 0 and at no other.
C2_PresentWhileHeld ==
    \A i \in Addr : i \in DOMAIN _instances <=> Total(outstanding[i], Threads) > 0

\* A close has taken one owner's count to 0 and another owner keeps the
\* instance in the Namespace.
C2_Witness ==
    \E w \in Workers :
        /\ pc[w] = "send"
        /\ Handler(request[w]) = "close"
        /\ response[w].type = "value"
        /\ outstanding[request[w].instance.id][w] = 0
        /\ request[w].instance.id \in DOMAIN _instances

\* C3: the cleanup of a disconnected worker runs with no other worker in a
\* critical section; when its release_all is through, every id of the
\* acquisition set has lost the worker's whole count, is still stored with
\* the other owners' counts as they were if it had other owners and is gone
\* if it had none, and every other id is as it was; the ended worker holds
\* nothing.
C3_DisconnectReleasesAll ==
    \A w \in Workers :
        /\ pc[w] = "cleanup" => \A v \in Workers \ {w} : ~InCritical(v)
        /\ (pc[w] = "cleanup" /\ todo[w] = {}) =>
             \A i \in Addr :
                IF i \in _inst_ids[w] /\ i \in DOMAIN entry.r
                THEN IF DOMAIN entry.r[i] \ {w} # {}
                     THEN /\ i \in DOMAIN _instances
                          /\ _instances[i] = entry.i[i]
                          /\ _ref_counts[i] = Del(entry.r[i], w)
                     ELSE i \notin DOMAIN _instances /\ i \notin DOMAIN _ref_counts
                ELSE /\ i \in DOMAIN _ref_counts <=> i \in DOMAIN entry.r
                     /\ i \in DOMAIN _ref_counts => _ref_counts[i] = entry.r[i]
        /\ pc[w] = "done" =>
             /\ todo[w] = {}
             /\ \A i \in DOMAIN _ref_counts : w \notin DOMAIN _ref_counts[i]

\* A cleanup is through with two ids: one survives, held by another owner,
\* one is destroyed.
C3_Witness ==
    \E w \in Workers :
        /\ pc[w] = "cleanup"
        /\ todo[w] = {}
        /\ \E i, j \in _inst_ids[w] :
             /\ i \in DOMAIN _instances
             /\ j \notin DOMAIN _instances

\* C4: no two objects are ever stored under the same instance id.
C4_IdsNeverReused ==
    \A o1, o2 \in 1..Len(heap) : id(o1) = id(o2) => o1 = o2

\* C5: at most one thread is inside a critical section, the one that holds
\* the lock; and a worker that leaves its critical section with a
\* `reference` response leaves the id stored, with itself among its owners.
C5_CriticalSectionsExclude ==
    /\ \A w \in Workers : InCritical(w) =>
         /\ lock = w
         /\ \A v \in Workers \ {w} : ~InCritical(v)
    /\ \A w \in Workers :
         (pc[w] = "send" /\ response[w].type = "reference") =>
             /\ response[w].value \in DOMAIN _instances
             /\ w \in Owners(response[w].value)

\* One worker has opened an existing id while its owner, disconnected, waits
\* for the lock to release it.
C5_Witness ==
    \E w, v \in Workers :
        /\ w # v
        /\ pc[w] = "send"
        /\ Handler(request[w]) = "open_instance"
        /\ response[w].type = "reference"
        /\ pc[v] = "closing"
        /\ response[w].value \in _inst_ids[v]

\* C6: the step that answers a request with an error leaves the worker's
\* acquisition set as it was and the Namespace as it was when the request
\* entered its critical section (as it was before the step, for an error
\* raised outside one).
C6_ErrorChangesNothing ==
    [][\A w \in Workers :
         (response[w].type # "error" /\ response'[w].type = "error") =>
             /\ _inst_ids'[w] = _inst_ids[w]
             /\ IF pc[w] = "act" THEN Snapshot' = entry
                ELSE UNCHANGED nsvars]_vars

\* A close by a worker that holds no reference to a stored instance has
\* been answered with an error.
C6_Witness ==
    \E w \in Workers :
        /\ pc[w] = "send"
        /\ Handler(request[w]) = "close"
        /\ response[w] = Error("KeyError")
        /\ request[w].instance.isint
        /\ request[w].instance.id \in DOMAIN _instances

\* C7: a worker owes no response when it reads or when its loop has ended:
\* every message it decoded it has answered, a malformed one with an error.
C7_EveryRequestAnswered ==
    \A w \in Workers :
        /\ pc[w] \in {"recv", "closing", "cleanup", "done"} => owed[w] = 0
        /\ (pc[w] = "send" /\ DispatchError(request[w]) # "") =>
             response[w].type = "error"

\* C8: an open of an instance the Namespace holds, by name or by id, is
\* answered with a reference to the instance's id, which is then in the
\* worker's acquisition set and counted for the worker.
C8_OpenInstanceSucceeds ==
    \A w \in Workers :
        (/\ pc[w] = "send"
         /\ Handler(request[w]) = "open_instance"
         /\ response[w] # Error("ValueError")) =>
            LET i == id(getitem(request[w].instance)) IN
            /\ response[w] = Response("reference", i)
            /\ i \in _inst_ids[w]
            /\ w \in Owners(i)

\* C9: an open by provider that is answered with a reference has added one
\* id to instance storage, with the table {this worker: 1}, has recorded it
\* in the acquisition set and has left every other entry alone; an open of
\* an unregistered provider is answered with an error and allocates nothing.
C9_OpenProviderAddsOneEntry ==
    [][\A w \in Workers :
         /\ (/\ pc[w] = "act"
             /\ Handler(request[w]) = "open_provider"
             /\ response'[w].type = "reference") =>
                LET i == response'[w].value IN
                /\ i \notin DOMAIN _instances
                /\ DOMAIN _instances' = DOMAIN _instances \cup {i}
                /\ _ref_counts'[i] = Put(EmptyDict, w, 1)
                /\ i \in _inst_ids'[w]
                /\ \A j \in DOMAIN _instances :
                     /\ _instances'[j] = _instances[j]
                     /\ _ref_counts'[j] = _ref_counts[j]
         /\ (/\ pc[w] = "enter"
             /\ pc'[w] # "enter"
             /\ Handler(request[w]) = "open_provider"
             /\ request[w].provider \notin DOMAIN types) =>
                /\ response'[w].type = "error"
                /\ UNCHANGED <<nsvars, heap>>]_vars

C11_ExecuteAfterCloseFails ==
    \A w \in Workers :
        (stale[w] /\ pc[w] \in {"act", "hung", "send"}) =>
            /\ pc[w] = "send"
            /\ response[w].type = "error"

\* C12: a request that has arrived on a connection and waits to enter its
\* handler's critical section does enter it, whatever the other connections'
\* handlers are doing (a method of theirs that never returns included).
C12_ConnectionsRunInParallel ==
    \A v \in Workers : (pc[v] = "enter") ~> (pc[v] # "enter")

\* The positions of Worker.run's loop.
InLoop(w) == pc[w] \in {"recv", "enter", "act", "hung", "send"}

\* C19: a worker leaves its loop only into the cleanup of Worker.run: the
\* next thing it does is to take the lock for one release_all over its whole
\* acquisition set, after which it has ended; once out of the loop it takes
\* no request; when it has ended it owns no reference; and unless a handler
\* hangs inside the lock, a worker out of its loop does end.
C19_ExitRunsCleanupOnce ==
    /\ [][\A w \in Workers :
            /\ (InLoop(w) /\ ~InLoop(w)') => pc'[w] = "closing"
            /\ (pc[w] = "closing" /\ pc'[w] # "closing") =>
                  /\ pc'[w] = "cleanup"
                  /\ lock' = w
                  /\ todo'[w] = _inst_ids[w]
            /\ (pc[w] = "cleanup" /\ pc'[w] # "cleanup") =>
                  /\ pc'[w] = "done"
                  /\ todo[w] = {}
            /\ pc[w] = "done" => pc'[w] = "done"
            /\ ~InLoop(w) => /\ request'[w] = request[w]
                             /\ response'[w] = response[w]
                             /\ _inst_ids'[w] = _inst_ids[w]]_vars
    /\ [](\A w \in Workers :
            pc[w] = "done" => \A i \in DOMAIN _ref_counts : w \notin Owners(i))
    /\ \A w \in Workers :
            (pc[w] = "closing") ~> (pc[w] = "done" \/ \E v \in Workers : pc[v] = "hung")

\* A worker whose loop a decode failure or a failed send has ended is through
\* with its cleanup, which has destroyed an instance it held.
C19_Witness ==
    \E w \in Workers :
        /\ pc[w] = "done"
        /\ request[w] = NoRequest
        /\ \E i \in _inst_ids[w] : i \notin DOMAIN _instances

\* C14: a binding of the type table never changes; a register_type whose
\* name is bound raises KeyError and leaves the table as it is, one whose
\* name is not bound binds it to the provider passed, whatever other names
\* that provider is bound to; and this with the calls of two threads
\* interleaved.
C14_TypeNameBoundOnce ==
    [][/\ \A n \in DOMAIN types : n \in DOMAIN types' /\ types'[n] = types[n]
       /\ \A c \in Callers :
            (reg[c].op = "register_type" /\ reg'[c].pc # reg[c].pc) =>
                IF reg[c].pc = "enter" THEN TRUE
                ELSE IF reg[c].name \in DOMAIN types
                THEN /\ reg'[c] = Idle("KeyError", reg[c].calls)
                     /\ types' = types
                ELSE \/ reg[c].pc = "check" /\ reg'[c].pc = "insert" /\ types' = types
                     \/ /\ reg[c].pc = "insert"
                        /\ reg'[c] = Idle("", reg[c].calls)
                        /\ types' = Put(types, reg[c].name, reg[c].provider)]_vars

\* One provider is bound under two names and a third registration under a
\* bound name has been rejected.
C14_Witness ==
    /\ \E n, m \in DOMAIN types : n # m /\ types[n] = types[m]
    /\ \E c \in Callers : reg[c].pc = "idle" /\ reg[c].raised = "KeyError"
    /\ \A c \in Callers : reg[c].pc = "idle"
    /\ DOMAIN _instances_by_name = {}

\* What a completed Server.register leaves: the name bound to the object
\* passed, the object stored under its id, every other entry as it was.
Registered(c) ==
    LET name == reg[c].name
        obj == _instances_by_name'[name]
        i == heap'[obj]
    IN /\ reg'[c] = Idle("", reg[c].calls)
       /\ DOMAIN _instances_by_name' = DOMAIN _instances_by_name \cup {name}
       /\ \A n \in DOMAIN _instances_by_name :
            _instances_by_name'[n] = _instances_by_name[n]
       /\ reg[c].inst # 0 => obj = reg[c].inst
       /\ DOMAIN _instances' = DOMAIN _instances \cup {i}
       /\ _instances'[i] = obj
       /\ DOMAIN _ref_counts' = DOMAIN _instances'
       /\ \A j \in DOMAIN _ref_counts : \A o \in DOMAIN _ref_counts[j] :
            (j # i \/ o # ServerOwner) => _ref_counts'[j][o] = _ref_counts[j][o]

\* A Server.register under a bound name raises KeyError and changes nothing.
Rejected(c) ==
    /\ reg'[c] = Idle("KeyError", reg[c].calls)
    /\ UNCHANGED <<_instances_by_name, _instances, _ref_counts>>

\* C15, as stated: a register under a bound name is rejected and changes
\* nothing; one under a fresh name binds the name and stores the instance
\* with the server's count on it 1.
C15_RegisterCountsOne ==
    [][\A c \in Callers :
         (reg[c].op = "register" /\ reg'[c].pc # reg[c].pc) =>
             IF reg[c].pc = "enter" THEN TRUE
             ELSE IF reg[c].name \in DOMAIN _instances_by_name THEN Rejected(c)
             ELSE \/ reg[c].pc = "check" /\ reg'[c].pc = "insert" /\ UNCHANGED nsvars
                  \/ /\ reg[c].pc = "insert"
                     /\ Registered(c)
                     /\ _ref_counts'[heap'[_instances_by_name'[reg[c].name]]]
                                   [ServerOwner] = 1]_vars

\* The server's count on an id, 0 if it has none.
ServerCount(rc, i) ==
    IF i \in DOMAIN rc /\ ServerOwner \in DOMAIN rc[i] THEN rc[i][ServerOwner] ELSE 0

\* C15, amended: a register under a bound name is rejected and changes
\* nothing; one under a fresh name binds the name, stores the instance and
\* adds one to the server's count on it, which is then 1 unless the server
\* had registered the same instance before.
C15_RegisterAddsOne ==
    [][\A c \in Callers :
         (reg[c].op = "register" /\ reg'[c].pc # reg[c].pc) =>
             IF reg[c].pc = "enter" THEN TRUE
             ELSE IF reg[c].name \in DOMAIN _instances_by_name THEN Rejected(c)
             ELSE \/ reg[c].pc = "check" /\ reg'[c].pc = "insert" /\ UNCHANGED nsvars
                  \/ /\ reg[c].pc = "insert"
                     /\ Registered(c)
                     /\ LET i == heap'[_instances_by_name'[reg[c].name]] IN
                        ServerCount(_ref_counts', i) = ServerCount(_ref_counts, i) + 1]_vars

\* One instance is registered under two names, and a registration under a
\* bound name has been rejected.
C15_Witness ==
    /\ \E n, m \in DOMAIN _instances_by_name :
         n # m /\ _instances_by_name[n] = _instances_by_name[m]
    /\ \E c \in Callers : reg[c].pc = "idle" /\ reg[c].raised = "KeyError"
    /\ DOMAIN types = {}

\* C13: the responses on a connection answer its requests 1, 2, 3, ... in
\* that order, each once; every request the worker has taken from the
\* unpacker is answered before the worker reads again, and only the one at
\* hand is unanswered while it is handled.
C13_OneResponsePerRequest ==
    /\ \A k \in 1..Len(answered) : answered[k] = k
    /\ at \in {"recv", "closed"} => Len(answered) = unpacked
    /\ at = "dispatch" => Len(answered) = unpacked - 1

\* Two requests have been answered in order while a third, received in the
\* same chunk as the second, already sits whole in the unpacker.
C13_Witness ==
    /\ Len(answered) = 2
    /\ at = "recv"
    /\ Buffered >= FrameLen

\* C20: however the stream is cut into chunks, the requests dispatched are
\* the requests received, in order; a request whose last byte has been
\* received is dispatched without any further byte (the worker never waits
\* in recv with a whole request in the unpacker), and none is lost when
\* the stream ends.
C20_FramingIgnoresChunks ==
    /\ \A k \in 1..Len(answered) : answered[k] = k
    /\ unpacked * FrameLen <= fed
    /\ at = "recv" => Buffered < FrameLen
    /\ at = "closed" => unpacked = fed \div FrameLen

\* C18 as stated: every plain value can be appended; obj[-1] is then a value
\* equal to the one appended last, `item in obj` is true of every value
\* appended and false of one equal to none of them, and len(obj) is not 0.
C18_ListRoundTrip ==
    /\ got.op = "append" => got.type = "value"
    /\ got.op = "getitem"
         => got.type = "value" /\ Eq(got.value, items[Len(items)])
    /\ got.op = "contains"
         => /\ got.type = "value"
            /\ (\E i \in 1..Len(items) : Same(items[i], got.item)) => got.value
            /\ (\A i \in 1..Len(items) : ~Eq(items[i], got.item))
                 => ~got.value
    /\ got.op = "len" /\ items # <<>> => got.value # 0

\* C18 for the values that msgpack can pack and that equal themselves.
RoundTrips(x) == Packable(x) /\ Eq(x, x)

C18_ListRoundTripOfEncodable ==
    /\ got.op = "append" /\ RoundTrips(got.item) => got.type = "value"
    /\ got.op = "getitem" /\ RoundTrips(got.item)
         => got.type = "value" /\ Eq(got.value, items[Len(items)])
    /\ got.op = "contains" /\ Packable(got.item)
         => /\ got.type = "value"
            /\ RoundTrips(got.item)
                 /\ (\E i \in 1..Len(items) : Same(items[i], got.item))
                 => got.value
            /\ (\A i \in 1..Len(items) : ~Eq(items[i], got.item))
                 => ~got.value
    /\ got.op = "len" /\ items # <<>> => got.value # 0

\* The bytes b'1.1' were appended after the string '1.1' and read back.
C18_Witness ==
    /\ Len(items) = 2
    /\ Same(items[1], Str("1.1"))
    /\ Same(items[2], Bytes("1.1"))
    /\ got.op = "getitem"
    /\ Same(got.value, Bytes("1.1"))

\* The count the worker w holds on id i.
HeldBy(w, i) ==
    IF i \in DOMAIN _ref_counts /\ w \in DOMAIN _ref_counts[i]
    THEN _ref_counts[i][w] ELSE 0

\* Nothing is under way between the Client and its worker, and the
\* connection is open.
Quiet ==
    /\ _socket = "socket"
    /\ \A t \in Apps : cpc[t] = "idle"
    /\ outbox = <<>>
    /\ inbox = <<>>
    /\ pc[Conn] = "recv"

\* C16: a step that finalizes a Proxy of id i starts exactly one request,
\* close(i), in the finalizing thread if the connection is open, and starts
\* none if it is closed; and when the connection is open and at rest, an id
\* with no live Proxy left has count 0 for the worker and is stored only if
\* another owner holds it.
C16_FinalizeClosesOnce ==
    /\ [][\A i \in Addr : proxies'[i] < proxies[i] =>
            IF _socket = "socket"
            THEN \E t \in Apps :
                   /\ cpc[t] = "idle" /\ cpc'[t] = "lock"
                   /\ call'[t] = Msg("map", "close", "", IdKey(i))
                   /\ \A u \in Apps \ {t} : cpc'[u] = cpc[u]
            ELSE UNCHANGED <<cpc, call, outbox>>]_vars
    /\ [](Quiet => \A i \in Addr : proxies[i] = 0 =>
            /\ HeldBy(Conn, i) = 0
            /\ i \in DOMAIN _instances => DOMAIN _ref_counts[i] \ {Conn} # {})

\* Every Proxy received has been finalized on the open connection, and
\* the close of the last one destroyed its instance.
C16_Witness ==
    /\ Quiet
    /\ \A i \in Addr : proxies[i] = 0
    /\ closed # {}

\* C17: at most one thread is between the send of its request and the
\* receive of its response, at most one request or response is on the
\* socket, and what a thread gets is the response to its own request:
\* the payload of a value, a Proxy for the id of a reference, RemoteError
\* for an error.
C17_RequestIsCriticalSection ==
    /\ Cardinality({t \in Apps : cpc[t] = "recv"}) <= 1
    /\ Len(outbox) + Len(inbox) <= 1
    /\ \A t \in Apps : result[t].kind # "" =>
          /\ result[t].to = t
          /\ result[t].value = result[t].resp.value
          /\ result[t].resp.type = "value" <=> result[t].kind = "value"
          /\ result[t].resp.type = "reference" <=> result[t].kind = "Proxy"
          /\ result[t].resp.type = "error" <=> result[t].kind = "RemoteError"

\* One thread waits for the lock while the other, which has got a Proxy
\* before, is between its send and its receive.
C17_Witness ==
    /\ cpc["t1"] = "recv"
    /\ cpc["t2"] = "lock"
    /\ result["t1"].kind = "Proxy"
    /\ result["t2"].kind = "RemoteError"

\* C21: a decode error gives the worker a new packer/unpacker pair and leaves
\* _dispatch as an exception: the step sends nothing and touches neither the
\* Namespace nor another worker's pair; from then on the worker is on its
\* cleanup path and handles no request; and its cleanup leaves every other
\* owner's count, and every instance another owner holds, as they were.
C21_DecodeErrorEndsConnection ==
    /\ [][\A w \in Workers : serdes'[w] # serdes[w] =>
            /\ pc[w] = "recv" /\ pc'[w] = "closing"
            /\ \A v \in Workers \ {w} : serdes'[v] = serdes[v] /\ pc'[v] = pc[v]
            /\ UNCHANGED <<nsvars, request, response, owed, decoded, _inst_ids>>
         ]_vars
    /\ [](\A w \in Workers : serdes[w] # 0 =>
            /\ pc[w] \in {"closing", "cleanup", "done"}
            /\ request[w] = NoRequest
            /\ response[w] = NoResponse)
    /\ [][\A w \in Workers : serdes[w] # 0 /\ todo'[w] # todo[w] =>
            \A i \in Addr : \A o \in Threads \ {w} :
                /\ HeldBy(o, i)' = HeldBy(o, i)
                /\ HeldBy(o, i) > 0 => /\ i \in DOMAIN _instances'
                                       /\ _instances'[i] = _instances[i]
         ]_vars

\* A worker that held an instance has ended after a decode error, and
\* another worker still holds one.
C21_Witness ==
    \E w \in Workers : \E v \in Workers \ {w} : \E i \in Addr :
        /\ serdes[w] # 0
        /\ pc[w] = "done"
        /\ _inst_ids[w] # {}
        /\ serdes[v] = 0
        /\ HeldBy(v, i) > 0

\* The ids on which the worker w has a count of 1 or more.
Holdings(w) == {i \in DOMAIN _ref_counts : HeldBy(w, i) >= 1}

\* C23: between requests a worker's acquisition set is the set of ids it
\* has a count on, all of them stored; after a close the id is still in the
\* set exactly if a count is left; and in the cleanup release_all finds the
\* table and the owner's entry of every id it visits.
C23_AcquisitionSetMatchesCounts ==
    \A w \in Workers :
        /\ pc[w] = "recv" =>
             /\ _inst_ids[w] = Holdings(w)
             /\ _inst_ids[w] \subseteq DOMAIN _instances
        /\ (/\ pc[w] = "send"
            /\ Handler(request[w]) = "close"
            /\ response[w].type = "value") =>
             (request[w].instance.id \in _inst_ids[w]
                <=> HeldBy(w, request[w].instance.id) >= 1)
        /\ pc[w] = "cleanup" =>
             \A inst_id \in todo[w] : ~release_all_KeyError(inst_id, w)

\* A worker that had two references to one id has closed one of them: the
\* id stays in its acquisition set.
C23_Witness ==
    \E w \in Workers :
        /\ pc[w] = "send"
        /\ Handler(request[w]) = "close"
        /\ response[w].type = "value"
        /\ HeldBy(w, request[w].instance.id) = 1
        /\ request[w].instance.id \in _inst_ids[w]

\* The worker w is inside _action_execute's `with` block: the lookup has
\* succeeded and the response is not built yet.
Executing(w) == pc[w] \in {"act", "hung"} /\ Handler(request[w]) = "execute"

\* The id of the instance a request names, by id or by name.
Target(m) ==
    IF m.instance.isint THEN m.instance.id
    ELSE id(_instances_by_name[m.instance.name])

\* C24: while an execute is inside its `with` block its instance is stored,
\* and is the object the lookup found; and no step removes an instance from
\* storage while any execute is inside its block.
C24_NoRemovalDuringExecute ==
    /\ [](\A w \in Workers : Executing(w) =>
            /\ contains(request[w].instance)
            /\ Target(request[w]) \in DOMAIN _instances
            /\ Target(request[w]) \in DOMAIN entry.i
            /\ _instances[Target(request[w])] = entry.i[Target(request[w])])
    /\ [][(\E i \in DOMAIN _instances : i \notin DOMAIN _instances')
            => \A w \in Workers : ~Executing(w)]_vars

\* An execute is inside its block while the only owner of its instance,
\* another worker, is about to close it.
C24_Witness ==
    \E w \in Workers : \E v \in Workers \ {w} :
        /\ Executing(w)
        /\ request[w].instance.isint
        /\ pc[v] = "enter"
        /\ Handler(request[v]) = "close"
        /\ request[v].instance = request[w].instance
        /\ DOMAIN _ref_counts[request[w].instance.id] = {v}

\* The step is one of the worker w.
Acts(w) == pc'[w] # pc[w] \/ todo'[w] # todo[w]

\* C25: a count goes down only in a step of the worker whose count it is
\* (the server's never does); an instance leaves storage only in the step
\* of a worker that was its only owner; and a close by a worker with no
\* count on the id it names is answered with an error and changes nothing
\* in the Namespace.
C25_OnlyOwnCountsGoDown ==
    /\ [][\A i \in Addr :
            /\ \A o \in Threads :
                 HeldBy(o, i)' < HeldBy(o, i) => o \in Workers /\ Acts(o)
            /\ (i \in DOMAIN _instances /\ i \notin DOMAIN _instances') =>
                 \E w \in Workers : Acts(w) /\ DOMAIN _ref_counts[i] = {w}
         ]_vars
    /\ [][\A w \in Workers :
            (/\ pc[w] = "act"
             /\ Handler(request[w]) = "close"
             /\ pc'[w] = "send"
             /\ HeldBy(w, request[w].instance.id) = 0) =>
                /\ response'[w].type = "error"
                /\ UNCHANGED nsvars
         ]_vars

\* A worker's close of an id that only another owner holds has been
\* answered with an error.
C25_Witness ==
    \E w \in Workers :
        /\ pc[w] = "send"
        /\ Handler(request[w]) = "close"
        /\ request[w].instance.isint
        /\ response[w].type = "error"
        /\ request[w].instance.id \in DOMAIN _instances
        /\ HeldBy(w, request[w].instance.id) = 0
        /\ DOMAIN _ref_counts[request[w].instance.id] # {}

\* The step of w is an execute whose method returns an object that the
\* Namespace already stores.
ReturnsStored(w) ==
    /\ Executing(w)
    /\ pc'[w] = "send"
    /\ ~ret'[w].plain
    /\ ret'[w].obj \in Values(_instances)

\* C26: an execute that returns a stored object answers with a reference
\* to the id it is stored under, leaves storage as it was, adds exactly one
\* to the worker's count on the id and leaves every other count alone; and
\* while a worker lives its count on an id is the number of references it
\* was given minus the closes it made, the instance being stored as long
\* as that is not 0.
C26_ReturnedStoredObjectIsAcquired ==
    /\ [][\A w \in Workers : \A i \in Addr :
            ReturnsStored(w) /\ i = heap'[ret'[w].obj] =>
            /\ response'[w] = Response("reference", i)
            /\ _instances' = _instances
            /\ DOMAIN _ref_counts' = DOMAIN _ref_counts
            /\ HeldBy(w, i)' = HeldBy(w, i) + 1
            /\ i \in _inst_ids'[w]
            /\ \A j \in Addr : \A o \in Threads :
                 (j # i \/ o # w) => HeldBy(o, j)' = HeldBy(o, j)
         ]_vars
    /\ [](\A w \in Workers : pc[w] \notin {"cleanup", "done"} =>
            \A i \in Addr :
                /\ HeldBy(w, i) = outstanding[i][w]
                /\ HeldBy(w, i) > 0 => i \in DOMAIN _instances)

\* A worker has got a second reference to an instance it opened, from a
\* method that returned the instance itself.
C26_Witness ==
    \E w \in Workers :
        /\ pc[w] = "send"
        /\ Handler(request[w]) = "execute"
        /\ response[w].type = "reference"
        /\ request[w].instance = IdKey(response[w].value)
        /\ HeldBy(w, response[w].value) = 2

\* C27: every bound name resolves to an object that is stored under its id
\* with the server's count, 1, on it; a name once bound stays bound to the
\* same object; and the server's count on an id changes in no step but a
\* registration.
C27_NamedInstancesStay ==
    /\ [](\A n \in DOMAIN _instances_by_name :
            LET obj == _instances_by_name[n] IN
            /\ id(obj) \in DOMAIN _instances
            /\ _instances[id(obj)] = obj
            /\ HeldBy(ServerOwner, id(obj)) = 1)
    /\ [][/\ \A n \in DOMAIN _instances_by_name :
               /\ n \in DOMAIN _instances_by_name'
               /\ _instances_by_name'[n] = _instances_by_name[n]
          /\ (\E i \in Addr : HeldBy(ServerOwner, i)' # HeldBy(ServerOwner, i))
               => _instances_by_name' # _instances_by_name
         ]_vars

\* A worker that had opened the named instance by its id has disconnected
\* and its cleanup is through.
C27_Witness ==
    \E n \in DOMAIN _instances_by_name : \E w \in Workers :
        /\ pc[w] = "done"
        /\ id(_instances_by_name[n]) \in _inst_ids[w]
        /\ HeldBy(w, id(_instances_by_name[n])) = 0

\* C22: Namespace.add never rebinds a name: in no step does a bound name
\* come to be bound to a different object (a call that names it for another
\* instance raises and leaves the binding).
C22_AddRejectsBoundName ==
    [][\A n \in DOMAIN _instances_by_name :
          /\ n \in DOMAIN _instances_by_name'
          /\ _instances_by_name'[n] = _instances_by_name[n]
      ]_vars

====
